---- MODULE Spec2Model ----
(***************************************************************************)
(* importvolume: import an existing storage volume as a PersistentVolume   *)
(* and PersistentVolumeClaim.  The model covers cmd/main.go (main),        *)
(* pkg/importer (NewVolumeImporter, Import) and pkg/util (GetSecret).      *)
(*                                                                         *)
(* A Go string is a sequence of one-character strings.  A Go map is a      *)
(* function whose domain is the set of keys present.  A pointer is the set *)
(* of what it points to: the empty set is nil.                              *)
(***************************************************************************)
EXTENDS Integers, Sequences, FiniteSets, TLC

EmptyMap == [k \in {} |-> <<>>]

(***************************************************************************)
(* Character classes used by os.Expand and by the DNS-1123 validation.     *)
(***************************************************************************)
Lower == {"a", "b", "c", "d", "e", "f", "g", "h", "i", "j", "k", "l", "m",
          "n", "o", "p", "q", "r", "s", "t", "u", "v", "w", "x", "y", "z"}

Upper == {"A", "B", "C", "D", "E", "F", "G", "H", "I", "J", "K", "L", "M",
          "N", "O", "P", "Q", "R", "S", "T", "U", "V", "W", "X", "Y", "Z"}

Digit == {"0", "1", "2", "3", "4", "5", "6", "7", "8", "9"}

\* The newline character.
NL == "\n"

\* os.isShellSpecialVar
isShellSpecialVar(c) == c \in {"*", "#", "$", "@", "!", "?", "-"} \cup Digit

\* os.isAlphaNum
isAlphaNum(c) == c = "_" \/ c \in Digit \/ c \in Lower \/ c \in Upper

\* The index of the first "}" of s at or after position i, 0 when there is none.
RECURSIVE closingBrace(_, _)
closingBrace(s, i) ==
  IF i > Len(s) THEN 0
  ELSE IF s[i] = "}" THEN i
  ELSE closingBrace(s, i + 1)

\* The length of the longest prefix of s made of isAlphaNum characters.
RECURSIVE alphaNumRun(_, _)
alphaNumRun(s, i) ==
  IF i <= Len(s) /\ isAlphaNum(s[i]) THEN alphaNumRun(s, i + 1) ELSE i - 1

\* os.getShellName: the name that starts s (s non-empty, the text after a "$")
\* and the number of characters it takes.
getShellName(s) ==
  IF s[1] = "{"
  THEN IF Len(s) > 2 /\ isShellSpecialVar(s[2]) /\ s[3] = "}"
       THEN [name |-> SubSeq(s, 2, 2), w |-> 3]
       ELSE LET c == closingBrace(s, 2)
            IN  IF c = 0 THEN [name |-> <<>>, w |-> 1]
                ELSE IF c = 2 THEN [name |-> <<>>, w |-> 2]
                ELSE [name |-> SubSeq(s, 2, c - 1), w |-> c]
  ELSE IF isShellSpecialVar(s[1])
  THEN [name |-> SubSeq(s, 1, 1), w |-> 1]
  ELSE LET n == alphaNumRun(s, 1)
       IN  [name |-> SubSeq(s, 1, n), w |-> n]

\* os.Expand(s, mapping) from position j on, with the mapping closure of
\* genVolumeHandle and resolveTemplate: a name found in params is replaced by
\* its value, a name not found is replaced by "" and inserted in missingParams.
RECURSIVE ExpandFrom(_, _, _)
ExpandFrom(s, j, params) ==
  IF j > Len(s) THEN [out |-> <<>>, missingParams |-> {}]
  ELSE IF s[j] = "$" /\ j < Len(s)
  THEN LET sn   == getShellName(SubSeq(s, j + 1, Len(s)))
           rest == ExpandFrom(s, j + sn.w + 1, params)
       IN  IF sn.name = <<>> /\ sn.w > 0
           THEN rest
           ELSE IF sn.name = <<>>
           THEN [out |-> <<"$">> \o rest.out, missingParams |-> rest.missingParams]
           ELSE IF sn.name \in DOMAIN params
           THEN [out |-> params[sn.name] \o rest.out,
                 missingParams |-> rest.missingParams]
           ELSE [out |-> rest.out,
                 missingParams |-> {sn.name} \cup rest.missingParams]
  ELSE LET rest == ExpandFrom(s, j + 1, params)
       IN  [out |-> <<s[j]>> \o rest.out, missingParams |-> rest.missingParams]

\* Expand with a mapping closure that does not record the names it misses.
ExpandSilent(s, params) ==
  [out |-> ExpandFrom(s, 1, params).out, missingParams |-> {}]

Expand(s, params) == ExpandFrom(s, 1, params)

\* TrimSuffix as strings.TrimRight would do it: every trailing newline goes.
RECURSIVE TrimSuffixAll(_)
TrimSuffixAll(s) ==
  IF Len(s) > 0 /\ s[Len(s)] = NL THEN TrimSuffixAll(SubSeq(s, 1, Len(s) - 1)) ELSE s

\* strings.TrimSuffix(s, "\n")
TrimSuffix(s) ==
  IF Len(s) > 0 /\ s[Len(s)] = NL THEN SubSeq(s, 1, Len(s) - 1) ELSE s

(***************************************************************************)
(* pkg/util: secret types, key tables and errors.                          *)
(*                                                                         *)
(* A storage-class parameter key is the pair <<prefix, rest>> of the       *)
(* string prefix \o rest, so that strings.HasPrefix(key, prefix) is a      *)
(* comparison of the first component.                                      *)
(***************************************************************************)
ProvisionerSecret == "ProvisionerSecret"

ControllerPublishSecret == "ControllerPublishSecret"

NodeStageSecret == "NodeStageSecret"

NodePublishSecret == "NodePublishSecret"

ControllerExpandSecret == "ControllerExpandSecret"

secretType == {ProvisionerSecret, ControllerPublishSecret, NodeStageSecret,
               NodePublishSecret, ControllerExpandSecret}

tokenPVNameKey == <<"p", "v", ".", "n", "a", "m", "e">>

tokenPVCNameKey == <<"p", "v", "c", ".", "n", "a", "m", "e">>

tokenPVCNamespaceKey == <<"p", "v", "c", ".", "n", "a", "m", "e", "s", "p", "a", "c", "e">>

csiParameterPrefix == "csi.storage.k8s.io/"

tokenFsTypeKey == <<csiParameterPrefix, "fsType">>

pvPrefix == <<"p", "v", "-">>

deprecatedNsKey(sType) ==
  CASE sType = ProvisionerSecret       -> <<"", "provisioner-secret-namespace">>
    [] sType = ControllerPublishSecret -> <<"", "controller-publish-secret-namespace">>
    [] sType = NodeStageSecret         -> <<"", "node-stage-secret-namespace">>
    [] sType = NodePublishSecret       -> <<"", "node-publish-secret-namespace">>
    [] sType = ControllerExpandSecret  -> <<"", "controller-expand-secret-namespace">>

deprecatedNameKey(sType) ==
  CASE sType = ProvisionerSecret       -> <<"", "provisioner-secret-name">>
    [] sType = ControllerPublishSecret -> <<"", "controller-publish-secret-name">>
    [] sType = NodeStageSecret         -> <<"", "node-stage-secret-name">>
    [] sType = NodePublishSecret       -> <<"", "node-publish-secret-name">>
    [] sType = ControllerExpandSecret  -> <<"", "controller-expand-secret-name">>

nsKey(sType) ==
  CASE sType = ProvisionerSecret       -> <<csiParameterPrefix, "provisioner-secret-namespace">>
    [] sType = ControllerPublishSecret -> <<csiParameterPrefix, "controller-publish-secret-namespace">>
    [] sType = NodeStageSecret         -> <<csiParameterPrefix, "node-stage-secret-namespace">>
    [] sType = NodePublishSecret       -> <<csiParameterPrefix, "node-publish-secret-namespace">>
    [] sType = ControllerExpandSecret  -> <<csiParameterPrefix, "controller-expand-secret-namespace">>

nameKey(sType) ==
  CASE sType = ProvisionerSecret       -> <<csiParameterPrefix, "provisioner-secret-name">>
    [] sType = ControllerPublishSecret -> <<csiParameterPrefix, "controller-publish-secret-name">>
    [] sType = NodeStageSecret         -> <<csiParameterPrefix, "node-stage-secret-name">>
    [] sType = NodePublishSecret       -> <<csiParameterPrefix, "node-publish-secret-name">>
    [] sType = ControllerExpandSecret  -> <<csiParameterPrefix, "controller-expand-secret-name">>

\* A Go error value: kind "nil" is the nil error; tokens, template and resolved
\* are what the message is formatted from.
NoError == [kind |-> "nil", tokens |-> {}, template |-> <<>>, resolved |-> <<>>]

Error(kind, tokens, template, resolved) ==
  [kind |-> kind, tokens |-> tokens, template |-> template, resolved |-> resolved]

ErrInvalidTokens == "invalid tokens"

ErrNotValidDNSName == "is not a valid dns name"

ErrOnlyNamespaceOrName == "only namespace or name is found for secret"

\* validation.DNS1123SubdomainMaxLength
DNS1123SubdomainMaxLength == 253

\* validation.dns1123SubdomainRegexp, anchored:
\* [a-z0-9]([-a-z0-9]*[a-z0-9])?(\.[a-z0-9]([-a-z0-9]*[a-z0-9])?)*
dns1123SubdomainRegexpMatch(value) ==
  /\ Len(value) > 0
  /\ \A i \in 1..Len(value) : value[i] \in Lower \cup Digit \cup {"-", "."}
  /\ value[1] \in Lower \cup Digit
  /\ value[Len(value)] \in Lower \cup Digit
  /\ \A i \in 1..Len(value) :
       value[i] = "." => /\ value[i - 1] \in Lower \cup Digit
                         /\ value[i + 1] \in Lower \cup Digit

\* validation.IsDNS1123Subdomain: the set of error messages.
IsDNS1123Subdomain(value) ==
  (IF Len(value) > DNS1123SubdomainMaxLength THEN {"must be no more than 253 characters"} ELSE {})
  \cup
  (IF ~dns1123SubdomainRegexpMatch(value) THEN {"a lowercase RFC 1123 subdomain must consist of"} ELSE {})

\* The token of a claim annotation key k: "pvc.annotations['" + k + "']".
annotationToken(k) ==
  <<"p", "v", "c", ".", "a", "n", "n", "o", "t", "a", "t", "i", "o", "n", "s", "[", "'">>
  \o k \o <<"'", "]">>

\* resolveParams without the test of isName: every token for every template.
resolveParamsExtended(pvName, pvc, isName) ==
  [t \in {annotationToken(k) : k \in DOMAIN pvc.Annotations} |->
     pvc.Annotations[CHOOSE k \in DOMAIN pvc.Annotations : annotationToken(k) = t]]
    @@ (tokenPVCNameKey :> pvc.Name)
    @@ (tokenPVNameKey :> pvName) @@ (tokenPVCNamespaceKey :> pvc.Namespace)

\* The map resolveTemplate builds before expanding.
resolveParams(pvName, pvc, isName) ==
  LET base == (tokenPVNameKey :> pvName) @@ (tokenPVCNamespaceKey :> pvc.Namespace)
      ann  == [t \in {annotationToken(k) : k \in DOMAIN pvc.Annotations} |->
                 pvc.Annotations[CHOOSE k \in DOMAIN pvc.Annotations : annotationToken(k) = t]]
  IN  IF isName
      THEN ann @@ (tokenPVCNameKey :> pvc.Name) @@ base
      ELSE base

\* resolved without the validation of the resolved value.
resolvedUnvalidated(template, e) ==
  IF Cardinality(e.missingParams) > 0
  THEN [val |-> <<>>, err |-> Error(ErrInvalidTokens, e.missingParams, <<>>, <<>>)]
  ELSE [val |-> e.out, err |-> NoError]

\* util.resolveTemplate, lines 451-458: what is returned once os.Expand has
\* left e.out and e.missingParams.
resolved(template, e) ==
  IF Cardinality(e.missingParams) > 0
  THEN [val |-> <<>>, err |-> Error(ErrInvalidTokens, e.missingParams, <<>>, <<>>)]
  ELSE IF Cardinality(IsDNS1123Subdomain(e.out)) > 0
  THEN [val |-> <<>>, err |-> Error(ErrNotValidDNSName, {}, template, e.out)]
  ELSE [val |-> e.out, err |-> NoError]

\* util.resolveTemplate: [val, err].
resolveTemplate(template, pvName, pvc, isName) ==
  resolved(template, Expand(template, resolveParams(pvName, pvc, isName)))

\* getSecretTemplate without the test nsOK != nameOK: one template alone is
\* taken as no template.
getSecretTemplateLenient(scParams, sType) ==
  LET nsOK   == nsKey(sType) \in DOMAIN scParams \/ deprecatedNsKey(sType) \in DOMAIN scParams
      nameOK == nameKey(sType) \in DOMAIN scParams \/ deprecatedNameKey(sType) \in DOMAIN scParams
  IN  IF ~nsOK \/ ~nameOK
      THEN [nsTempl |-> <<>>, nameTempl |-> <<>>, err |-> NoError]
      ELSE [nsTempl |-> IF nsKey(sType) \in DOMAIN scParams THEN scParams[nsKey(sType)]
                        ELSE scParams[deprecatedNsKey(sType)],
            nameTempl |-> IF nameKey(sType) \in DOMAIN scParams THEN scParams[nameKey(sType)]
                          ELSE scParams[deprecatedNameKey(sType)],
            err |-> NoError]

\* getSecretTemplate with the two lookups of each field swapped: the
\* deprecated key first.
getSecretTemplateDeprecatedFirst(scParams, sType) ==
  LET nsOK   == nsKey(sType) \in DOMAIN scParams \/ deprecatedNsKey(sType) \in DOMAIN scParams
      nameOK == nameKey(sType) \in DOMAIN scParams \/ deprecatedNameKey(sType) \in DOMAIN scParams
      nsTempl == IF deprecatedNsKey(sType) \in DOMAIN scParams
                 THEN scParams[deprecatedNsKey(sType)]
                 ELSE IF nsOK THEN scParams[nsKey(sType)] ELSE <<>>
      nameTempl == IF deprecatedNameKey(sType) \in DOMAIN scParams
                   THEN scParams[deprecatedNameKey(sType)]
                   ELSE IF nameOK THEN scParams[nameKey(sType)] ELSE <<>>
  IN  IF nsOK # nameOK
      THEN [nsTempl |-> <<>>, nameTempl |-> <<>>,
            err |-> Error(ErrOnlyNamespaceOrName, {}, nsTempl, nameTempl)]
      ELSE IF ~nsOK /\ ~nameOK
      THEN [nsTempl |-> <<>>, nameTempl |-> <<>>, err |-> NoError]
      ELSE [nsTempl |-> nsTempl, nameTempl |-> nameTempl, err |-> NoError]

\* util.getSecretTemplate: [nsTempl, nameTempl, err].
getSecretTemplate(scParams, sType) ==
  LET nsOK1   == nsKey(sType) \in DOMAIN scParams
      nsOK    == nsOK1 \/ deprecatedNsKey(sType) \in DOMAIN scParams
      nsTempl == IF nsOK1 THEN scParams[nsKey(sType)]
                 ELSE IF nsOK THEN scParams[deprecatedNsKey(sType)]
                 ELSE <<>>
      nameOK1   == nameKey(sType) \in DOMAIN scParams
      nameOK    == nameOK1 \/ deprecatedNameKey(sType) \in DOMAIN scParams
      nameTempl == IF nameOK1 THEN scParams[nameKey(sType)]
                   ELSE IF nameOK THEN scParams[deprecatedNameKey(sType)]
                   ELSE <<>>
  IN  IF nsOK # nameOK
      THEN [nsTempl |-> <<>>, nameTempl |-> <<>>,
            err |-> Error(ErrOnlyNamespaceOrName, {}, nsTempl, nameTempl)]
      ELSE IF ~nsOK /\ ~nameOK
      THEN [nsTempl |-> <<>>, nameTempl |-> <<>>, err |-> NoError]
      ELSE [nsTempl |-> nsTempl, nameTempl |-> nameTempl, err |-> NoError]

\* A *v1.SecretReference: the empty set is the nil pointer.
SecretReference(ns, name) == {[Namespace |-> ns, Name |-> name]}

\* util.GetSecret, lines 388-405: what is returned once getSecretTemplate has
\* returned t.
secretOf(t, pvName, pvc) ==
  IF t.err # NoError THEN [ref |-> {}, err |-> t.err]
  ELSE IF t.nsTempl = <<>> \/ t.nameTempl = <<>> THEN [ref |-> {}, err |-> NoError]
  ELSE LET ns == resolveTemplate(t.nsTempl, pvName, pvc, FALSE)
       IN  IF ns.err # NoError THEN [ref |-> {}, err |-> ns.err]
           ELSE LET name == resolveTemplate(t.nameTempl, pvName, pvc, TRUE)
                IN  IF name.err # NoError THEN [ref |-> {}, err |-> name.err]
                    ELSE [ref |-> SecretReference(ns.val, name.val), err |-> NoError]

\* util.GetSecret: [ref, err].
GetSecret(scParams, sType, pvName, pvc) ==
  secretOf(getSecretTemplate(scParams, sType), pvName, pvc)

(***************************************************************************)
(* The program's state.  The first group is what the run is started with   *)
(* and what it reads (flags, the claim file, the template directory, the   *)
(* cluster's storage classes); none of it is ever written.                 *)
(***************************************************************************)
VARIABLES
  kubeconfig,      \* --kubeconfig: "valid" when a client can be built from it
  namespace,       \* --namespace
  file,            \* --filename: the claim parsePVCfile decodes, {} when it cannot
  importParams,    \* --parameters
  templatePath,    \* the template directory: provisioner name -> file content
  storageClasses,  \* the cluster's storage classes: name -> StorageClass
  pc,              \* main's position
  v,               \* main's *VolumeImporter, {} while nil
  setSecretErr,    \* what the last call of setSecret returned
  persistentVolumes,       \* the volumes created in the cluster
  persistentVolumeClaims,  \* the claims created in the cluster
  calls,           \* the create calls issued to the cluster, in order
  stderr,          \* the diagnostics printed
  exitCode         \* the exit status, once pc = "exited"

inputs == <<kubeconfig, namespace, file, importParams, templatePath, storageClasses>>

vars == <<kubeconfig, namespace, file, importParams, templatePath, storageClasses,
          pc, v, setSecretErr, persistentVolumes, persistentVolumeClaims, calls,
          stderr, exitCode>>

\* The only element of a non-nil pointer.
Deref(p) == CHOOSE x \in p : TRUE

PersistentVolumeBlock == "Block"

PersistentVolumeFilesystem == "Filesystem"

(***************************************************************************)
(* pkg/importer                                                            *)
(***************************************************************************)

\* VolumeImporter.genVolumeHandle: [val, err].
genVolumeHandle(i) ==
  IF i.sc.Provisioner \notin DOMAIN i.templatePath
  THEN [val |-> <<>>, err |-> Error("ReadFile", {}, <<>>, <<>>)]
  ELSE LET template == i.templatePath[i.sc.Provisioner]
           e == Expand(TrimSuffix(template), i.importParams)
       IN  IF Cardinality(e.missingParams) > 0
           THEN [val |-> <<>>, err |-> Error(ErrInvalidTokens, e.missingParams, <<>>, <<>>)]
           ELSE [val |-> e.out, err |-> NoError]

\* VolumeImporter.setSecret, the assignments and early returns: r1 to r4 are
\* what the four calls of GetSecret return, in the order of the calls.
setSecrets(i, r1, r2, r3, r4) ==
  IF r1.err # NoError
  THEN [v |-> [i EXCEPT !.controllerPublishSecret = r1.ref], err |-> r1.err]
  ELSE IF r2.err # NoError
  THEN [v |-> [i EXCEPT !.controllerPublishSecret = r1.ref,
                        !.nodeStageSecret = r2.ref], err |-> r2.err]
  ELSE IF r3.err # NoError
  THEN [v |-> [i EXCEPT !.controllerPublishSecret = r1.ref,
                        !.nodeStageSecret = r2.ref,
                        !.nodePublishSecret = r3.ref], err |-> r3.err]
  ELSE [v |-> [i EXCEPT !.controllerPublishSecret = r1.ref,
                        !.nodeStageSecret = r2.ref,
                        !.nodePublishSecret = r3.ref,
                        !.controllerExpandSecret = r4.ref], err |-> r4.err]

\* VolumeImporter.setSecret: [v, err], the importer as the call leaves it and
\* the error returned.
setSecret(i) ==
  setSecrets(i,
             GetSecret(i.sc.Parameters, ControllerPublishSecret, i.pvName, i.pvc),
             GetSecret(i.sc.Parameters, NodeStageSecret, i.pvName, i.pvc),
             GetSecret(i.sc.Parameters, NodePublishSecret, i.pvName, i.pvc),
             GetSecret(i.sc.Parameters, ControllerExpandSecret, i.pvName, i.pvc))

\* VolumeImporter.genFsType
genFsType(i) ==
  IF i.volumeMode # {} /\ Deref(i.volumeMode) = PersistentVolumeBlock THEN <<>>
  ELSE IF tokenFsTypeKey \in DOMAIN i.sc.Parameters THEN i.sc.Parameters[tokenFsTypeKey]
  ELSE <<>>

\* VolumeImporter.genAttributes
genAttributes(i) ==
  [key \in {k \in DOMAIN i.sc.Parameters : k[1] # csiParameterPrefix} |->
     i.sc.Parameters[key]]

\* The zero VolumeImporter with the three fields the constructor sets.
newImporter(ns, params, tp) ==
  [cs |-> {}, namespace |-> ns, templatePath |-> tp, importParams |-> params,
   pvc |-> {}, sc |-> {}, pvName |-> <<>>, volumeHandle |-> <<>>, capacity |-> <<>>,
   attributes |-> EmptyMap, readOnly |-> FALSE, volumeMode |-> {}, fsType |-> <<>>,
   controllerPublishSecret |-> {}, nodeStageSecret |-> {},
   nodePublishSecret |-> {}, controllerExpandSecret |-> {}]

\* The PersistentVolume createPV builds.
persistentVolume(i) ==
  [Name |-> i.pvName,
   Annotations |-> [a \in {"pv.kubernetes.io/provisioned-by"} |-> i.sc.Provisioner],
   StorageClassName |-> Deref(i.pvc.Spec.StorageClassName),
   Capacity |-> i.capacity,
   AccessModes |-> i.pvc.Spec.AccessModes,
   ClaimRef |-> [Kind |-> "PersistentVolumeClaim", APIVersion |-> "v1",
                 Namespace |-> i.pvc.Namespace, Name |-> i.pvc.Name],
   CSI |-> [Driver |-> i.sc.Provisioner,
            VolumeHandle |-> i.volumeHandle,
            ControllerPublishSecretRef |-> i.controllerPublishSecret,
            NodeStageSecretRef |-> i.nodeStageSecret,
            NodePublishSecretRef |-> i.nodePublishSecret,
            ControllerExpandSecretRef |-> i.controllerExpandSecret,
            VolumeAttributes |-> i.attributes,
            FSType |-> i.fsType,
            ReadOnly |-> i.readOnly]]

(***************************************************************************)
(* The runs checked.  Every run starts from one element of Inputs.         *)
(***************************************************************************)

\* The longest driver template enumerated character by character.
MaxLen == 4

\* The largest number of pieces a template is assembled from.
MaxPieces == 2

\* All concatenations of at most n elements of pieces.
RECURSIVE Templates(_, _)
Templates(pieces, n) ==
  IF n = 0 THEN {<<>>}
  ELSE LET shorter == Templates(pieces, n - 1)
       IN  shorter \cup {t \o p : t \in shorter, p \in pieces}

\* "${" \o name \o "}"
Braced(name) == <<"$", "{">> \o name \o <<"}">>

\* n times the character c.
Rep(c, n) == [i \in 1..n |-> c]

Size == <<"s", "i", "z", "e">>

Team == <<"t", "e", "a", "m">>

Env == <<"e", "n", "v">>

Platform == <<"p", "l", "a", "t", "f", "o", "r", "m">>

DefaultNamespace == <<"n", "s", "1">>

DefaultName == <<"f", "o", "o">>

Driver == "csi.example.com"

ClassName == "fast"

\* A claim as parsePVCfile returns it.
Claim(name, annotations, className, volumeMode) ==
  [Name |-> name, Namespace |-> <<>>, Annotations |-> annotations,
   Spec |-> [StorageClassName |-> className, VolumeMode |-> volumeMode,
             Requests |-> "10Gi", AccessModes |-> <<"ReadWriteOnce">>]]

DefaultClaim == Claim(DefaultName, Team :> Platform, {ClassName}, {})

\* A run's inputs.
Input(kc, ns, f, params, template, scParams) ==
  [kubeconfig |-> kc, namespace |-> ns, file |-> f, importParams |-> params,
   templatePath |-> template,
   storageClasses |-> ClassName :> [Name |-> ClassName, Provisioner |-> Driver,
                                     Parameters |-> scParams]]

\* The characters driver templates are enumerated over: the three of the
\* placeholder syntax ("$" is a special variable too), a name character, the
\* newline.
HandleChars == {"$", "{", "}", "a", NL}

HandlePieces == {Braced(Size), Braced(<<"a">>), Braced(<<"b">>), <<"h">>, <<"-">>}

HandleTemplates ==
  Templates({<<c>> : c \in HandleChars}, MaxLen) \cup Templates(HandlePieces, MaxPieces)

ImportParamSets ==
  { EmptyMap,
    <<"a">> :> <<"x">>,
    (<<"a">> :> <<>>) @@ (<<"$">> :> <<"s">>),
    (Size :> <<"1", "0", "G", "i">>) @@ (<<"b">> :> <<"y">>) }

\* Runs over driver templates and import parameters, without secrets.
HandleInputs ==
  { Input("valid", DefaultNamespace, {DefaultClaim}, params, Driver :> t, EmptyMap) :
      t \in HandleTemplates, params \in ImportParamSets }

SecretPieces ==
  { Braced(tokenPVNameKey), Braced(tokenPVCNamespaceKey), Braced(tokenPVCNameKey),
    Braced(annotationToken(Team)), Braced(annotationToken(Env)),
    <<"$", "p", "v", "c">>, <<"a">>, <<"-">>, <<".">>, <<"A">>, <<"_">> }

SecretTemplates == Templates(SecretPieces, MaxPieces)

\* The categories the importer resolves.
ImportedSecrets ==
  {ControllerPublishSecret, NodeStageSecret, NodePublishSecret, ControllerExpandSecret}

\* Namespaces: a plain one, one with two hyphens in a row, one too long.
Namespaces ==
  {DefaultNamespace, <<"n", "-", "-", "s">>, Rep("a", DNS1123SubdomainMaxLength + 1)}

\* Claims: with and without annotations, and with a name that makes the
\* volume name exactly as long as a subdomain may be.
Claims ==
  { DefaultClaim,
    Claim(DefaultName, EmptyMap, {ClassName}, {}),
    Claim(Rep("b", DNS1123SubdomainMaxLength - Len(pvPrefix)),
          (Team :> <<"O", "p", "s">>) @@ (Env :> <<"x">>), {ClassName}, {}) }

\* Runs over the templates of one category's secret, under the canonical keys:
\* the namespace template varies with the namespace, the name template with
\* the claim.
SecretInputs ==
  { Input("valid", ns, {DefaultClaim}, EmptyMap, Driver :> <<"h">>,
          (nsKey(c) :> t) @@ (nameKey(c) :> Braced(tokenPVNameKey))) :
      c \in {ControllerPublishSecret, NodePublishSecret},
      t \in SecretTemplates, ns \in Namespaces }
  \cup
  { Input("valid", DefaultNamespace, {claim}, EmptyMap, Driver :> <<"h">>,
          (nsKey(c) :> Braced(tokenPVCNamespaceKey)) @@ (nameKey(c) :> t)) :
      c \in {NodeStageSecret, ControllerExpandSecret},
      t \in SecretTemplates, claim \in Claims }

\* One key of a storage class, absent or with one of the values.
KeyChoices(key, values) == {EmptyMap} \cup {key :> val : val \in values}

\* Runs over which of the four keys of category c are present, and whether a
\* present key's value is empty.
KeyInputsOf(c) ==
  { Input("valid", DefaultNamespace, {DefaultClaim}, EmptyMap, Driver :> <<"h">>,
          ns @@ dns @@ name @@ dname) :
      ns \in KeyChoices(nsKey(c), {Braced(tokenPVCNamespaceKey), <<>>}),
      dns \in KeyChoices(deprecatedNsKey(c), {<<"o">>, <<>>}),
      name \in KeyChoices(nameKey(c), {Braced(tokenPVNameKey), <<>>}),
      dname \in KeyChoices(deprecatedNameKey(c), {<<"d">>, <<>>}) }

KeyInputs == UNION {KeyInputsOf(c) : c \in ImportedSecrets}

\* What a storage class may hold for category c: nothing, a resolvable pair,
\* a namespace alone, a namespace template with a token it may not use, a
\* name that is no subdomain name.
CategoryConfigs(c) ==
  { EmptyMap,
    (nsKey(c) :> Braced(tokenPVCNamespaceKey))
      @@ (deprecatedNameKey(c) :> (Braced(tokenPVNameKey) \o <<"-", "s">>)),
    nsKey(c) :> Braced(tokenPVCNamespaceKey),
    (nsKey(c) :> Braced(tokenPVCNameKey)) @@ (nameKey(c) :> Braced(tokenPVNameKey)),
    (nsKey(c) :> Braced(tokenPVCNamespaceKey)) @@ (nameKey(c) :> <<"A">>) }

\* Parameters of the storage class besides the secrets of the importer.
OtherParams ==
  (tokenFsTypeKey :> <<"e", "x", "t", "4">>)
    @@ (<<"", "pool">> :> <<"p", "1">>)
    @@ (nsKey(ProvisionerSecret) :> <<"k">>)

HandleTemplate == <<"h", "-">> \o Braced(Size) \o <<NL>>

SizeParams == Size :> <<"1", "0", "G", "i">>

\* Runs over what the storage class holds for each of the four categories.
CategoryInputs ==
  { Input("valid", DefaultNamespace, {DefaultClaim}, SizeParams, Driver :> HandleTemplate,
          p1 @@ p2 @@ p3 @@ p4 @@ OtherParams) :
      p1 \in CategoryConfigs(ControllerPublishSecret),
      p2 \in CategoryConfigs(NodeStageSecret),
      p3 \in CategoryConfigs(NodePublishSecret),
      p4 \in CategoryConfigs(ControllerExpandSecret) }

\* Runs over what the setup can find wrong, and over the volume mode.
SetupInputs ==
  { Input(kc, DefaultNamespace, f, SizeParams, tp, OtherParams) :
      kc \in {"valid", "invalid"},
      f \in { {},
              {DefaultClaim},
              {Claim(DefaultName, EmptyMap, {}, {})},
              {Claim(DefaultName, EmptyMap, {"slow"}, {})},
              {Claim(DefaultName, EmptyMap, {ClassName}, {PersistentVolumeBlock})},
              {Claim(DefaultName, EmptyMap, {ClassName}, {PersistentVolumeFilesystem})} },
      tp \in {EmptyMap, Driver :> HandleTemplate} }

Inputs == HandleInputs \cup SecretInputs \cup KeyInputs \cup CategoryInputs \cup SetupInputs

Init ==
  /\ \E in \in Inputs :
       /\ kubeconfig = in.kubeconfig
       /\ namespace = in.namespace
       /\ file = in.file
       /\ importParams = in.importParams
       /\ templatePath = in.templatePath
       /\ storageClasses = in.storageClasses
  /\ pc = "main"
  /\ v = {}
  /\ setSecretErr = NoError
  /\ persistentVolumes = {}
  /\ persistentVolumeClaims = {}
  /\ calls = <<>>
  /\ stderr = <<>>
  /\ exitCode = 0

(***************************************************************************)
(* cmd/main.go: main, with the calls of NewVolumeImporter and Import       *)
(* inlined.  pc is the next step; v is the importer under construction     *)
(* and, from "createPV" on, main's v.                                      *)
(***************************************************************************)

\* os.Exit(code) after printing msg and the error to the error stream.
Exit(msg, err, code) ==
  /\ stderr' = Append(stderr, [msg |-> msg, err |-> err])
  /\ exitCode' = code
  /\ pc' = "exited"

\* NewVolumeImporter returns (nil, err); main prints and exits 1.
FailedToStart(err) ==
  /\ v' = {}
  /\ Exit("Failed to start importer", err, 1)

\* NewVolumeImporter, lines 120-133: the importer and its client.
NewClient ==
  /\ pc = "main"
  /\ IF kubeconfig # "valid"
     THEN FailedToStart(Error("BuildConfigFromFlags", {}, <<>>, <<>>))
     ELSE /\ v' = {[newImporter(namespace, importParams, templatePath) EXCEPT
                      !.cs = {"clientset"}]}
          /\ pc' = "parsePVCfile"
          /\ UNCHANGED <<stderr, exitCode>>
  /\ UNCHANGED <<inputs, setSecretErr, persistentVolumes, persistentVolumeClaims, calls>>

\* NewVolumeImporter, lines 135-140: the claim, with the namespace of the flag.
ParsePVCFile ==
  /\ pc = "parsePVCfile"
  /\ IF file = {}
     THEN FailedToStart(Error("failed to parse file", {}, <<>>, <<>>))
     ELSE /\ \E i \in v :
               v' = {[i EXCEPT !.pvc = [Deref(file) EXCEPT !.Namespace = i.namespace]]}
          /\ pc' = "getStorageClass"
          /\ UNCHANGED <<stderr, exitCode>>
  /\ UNCHANGED <<inputs, setSecretErr, persistentVolumes, persistentVolumeClaims, calls>>

\* NewVolumeImporter, lines 142-150: the storage class the claim names (a
\* claim that names none makes the dereference panic), the volume's name and
\* capacity.
GetStorageClass ==
  /\ pc = "getStorageClass"
  /\ \E i \in v :
       IF i.pvc.Spec.StorageClassName = {}
       THEN /\ v' = {}
            /\ Exit("panic", Error("invalid memory address or nil pointer dereference", {}, <<>>, <<>>), 2)
       ELSE IF Deref(i.pvc.Spec.StorageClassName) \notin DOMAIN storageClasses
       THEN FailedToStart(Error("failed to get StorageClass", {}, <<>>, <<>>))
       ELSE /\ v' = {[i EXCEPT !.sc = storageClasses[Deref(i.pvc.Spec.StorageClassName)],
                               !.pvName = pvPrefix \o i.pvc.Name,
                               !.capacity = i.pvc.Spec.Requests]}
            /\ pc' = "genVolumeHandle"
            /\ UNCHANGED <<stderr, exitCode>>
  /\ UNCHANGED <<inputs, setSecretErr, persistentVolumes, persistentVolumeClaims, calls>>

\* NewVolumeImporter, lines 152-155.
GenVolumeHandle ==
  /\ pc = "genVolumeHandle"
  /\ \E i \in v, h \in {genVolumeHandle(Deref(v))} :
       IF h.err # NoError
       THEN FailedToStart(h.err)
       ELSE /\ v' = {[i EXCEPT !.volumeHandle = h.val]}
            /\ pc' = "setSecret"
            /\ UNCHANGED <<stderr, exitCode>>
  /\ UNCHANGED <<inputs, setSecretErr, persistentVolumes, persistentVolumeClaims, calls>>

\* NewVolumeImporter, line 157: the call v.setSecret(), whose result is not
\* looked at.
SetSecret ==
  /\ pc = "setSecret"
  /\ \E r \in {setSecret(Deref(v))} :
       /\ v' = {r.v}
       /\ setSecretErr' = r.err
  /\ pc' = "genFsType"
  /\ UNCHANGED <<inputs, persistentVolumes, persistentVolumeClaims, calls, stderr, exitCode>>

\* NewVolumeImporter, lines 159-166, and its return to main.
GenFsTypeAndAttributes ==
  /\ pc = "genFsType"
  /\ \E i \in {[Deref(v) EXCEPT !.readOnly = FALSE,
                                !.volumeMode = Deref(v).pvc.Spec.VolumeMode]} :
       v' = {[i EXCEPT !.fsType = genFsType(i), !.attributes = genAttributes(i)]}
  /\ pc' = "createPV"
  /\ UNCHANGED <<inputs, setSecretErr, persistentVolumes, persistentVolumeClaims, calls,
                 stderr, exitCode>>

\* Import, line 225, and createPV: the cluster accepts the volume or not.
CreatePV ==
  /\ pc = "createPV"
  /\ calls' = Append(calls, "PersistentVolumes.Create")
  /\ \E accepted \in BOOLEAN :
       IF accepted
       THEN /\ persistentVolumes' = persistentVolumes \cup {persistentVolume(Deref(v))}
            /\ pc' = "createPVC"
            /\ UNCHANGED <<stderr, exitCode>>
       ELSE /\ Exit("Failed to import", Error("PersistentVolumes.Create", {}, <<>>, <<>>), 1)
            /\ UNCHANGED persistentVolumes
  /\ UNCHANGED <<inputs, v, setSecretErr, persistentVolumeClaims>>

\* CreatePVC with a cleanup: a refused claim takes the created volume away.
CreatePVCRollback ==
  /\ pc = "createPVC"
  /\ calls' = Append(calls, "PersistentVolumeClaims.Create")
  /\ \E accepted \in BOOLEAN :
       IF accepted
       THEN /\ persistentVolumeClaims' = persistentVolumeClaims \cup {Deref(v).pvc}
            /\ pc' = "exited"
            /\ exitCode' = 0
            /\ UNCHANGED <<stderr, persistentVolumes>>
       ELSE /\ Exit("Failed to import", Error("PersistentVolumeClaims.Create", {}, <<>>, <<>>), 1)
            /\ persistentVolumes' = {}
            /\ UNCHANGED persistentVolumeClaims
  /\ UNCHANGED <<inputs, v, setSecretErr>>

\* Import, line 228, and createPVC; then main returns or exits 1.
CreatePVC ==
  /\ pc = "createPVC"
  /\ calls' = Append(calls, "PersistentVolumeClaims.Create")
  /\ \E accepted \in BOOLEAN :
       IF accepted
       THEN /\ persistentVolumeClaims' = persistentVolumeClaims \cup {Deref(v).pvc}
            /\ pc' = "exited"
            /\ exitCode' = 0
            /\ UNCHANGED stderr
       ELSE /\ Exit("Failed to import", Error("PersistentVolumeClaims.Create", {}, <<>>, <<>>), 1)
            /\ UNCHANGED persistentVolumeClaims
  /\ UNCHANGED <<inputs, v, setSecretErr, persistentVolumes>>

Next ==
  \/ NewClient
  \/ ParsePVCFile
  \/ GetStorageClass
  \/ GenVolumeHandle
  \/ SetSecret
  \/ GenFsTypeAndAttributes
  \/ CreatePV
  \/ CreatePVC

Spec == Init /\ [][Next]_vars

(***************************************************************************)
(* What the properties below are stated with.                              *)
(***************************************************************************)

\* The importer once NewVolumeImporter has reached the step.
HandleSucceeded ==
  v # {} /\ pc \in {"setSecret", "genFsType", "createPV", "createPVC", "exited"}

SecretsSet == v # {} /\ pc \in {"genFsType", "createPV", "createPVC", "exited"}

\* The error of the last diagnostic printed.
LastErr == stderr[Len(stderr)].err

\* genVolumeHandle returned the missing-token error.
HandleFailed ==
  pc = "exited" /\ v = {} /\ stderr # <<>> /\ LastErr.kind = ErrInvalidTokens

\* The field of importer i that holds the secret of category c.
Stored(i, c) ==
  CASE c = ControllerPublishSecret -> i.controllerPublishSecret
    [] c = NodeStageSecret         -> i.nodeStageSecret
    [] c = NodePublishSecret       -> i.nodePublishSecret
    [] c = ControllerExpandSecret  -> i.controllerExpandSecret

\* The field of volume record pv that holds the secret of category c.
Placed(pv, c) ==
  CASE c = ControllerPublishSecret -> pv.CSI.ControllerPublishSecretRef
    [] c = NodeStageSecret         -> pv.CSI.NodeStageSecretRef
    [] c = NodePublishSecret       -> pv.CSI.NodePublishSecretRef
    [] c = ControllerExpandSecret  -> pv.CSI.ControllerExpandSecretRef

\* The position of the first "}" of s at or after position i, 0 when none.
FirstClose(s, i) ==
  LET ks == {k \in i..Len(s) : s[k] = "}"}
  IN  IF ks = {} THEN 0 ELSE CHOOSE k \in ks : \A k2 \in ks : k <= k2

\* The names of the "${name}" placeholders of s, read left to right from
\* position i: a placeholder runs from "${" to the next "}" and its name is
\* not empty.
RECURSIVE BracedNamesFrom(_, _)
BracedNamesFrom(s, i) ==
  IF i >= Len(s) THEN {}
  ELSE IF s[i] = "$" /\ s[i + 1] = "{"
  THEN LET k == FirstClose(s, i + 2)
       IN  IF k = 0 THEN BracedNamesFrom(s, i + 1)
           ELSE IF k = i + 2 THEN BracedNamesFrom(s, k + 1)
           ELSE {SubSeq(s, i + 2, k - 1)} \cup BracedNamesFrom(s, k + 1)
  ELSE BracedNamesFrom(s, i + 1)

BracedNames(s) == BracedNamesFrom(s, 1)

\* Every "$" of s opens a "${name}" placeholder: it is followed by "{", a
\* non-empty name without "$", and "}".
OnlyBracedPlaceholders(s) ==
  \A i \in 1..Len(s) :
    s[i] = "$" =>
      /\ i < Len(s)
      /\ s[i + 1] = "{"
      /\ FirstClose(s, i + 2) > i + 2
      /\ \A j \in (i + 2)..(FirstClose(s, i + 2) - 1) : s[j] # "$"

\* No "$" of s starts anything os.Expand expands or drops: each is the last
\* character or is followed by a character that is no letter, digit,
\* underscore, "{" or special variable.
NoExpansion(s) ==
  \A i \in 1..Len(s) :
    s[i] = "$" =>
      \/ i = Len(s)
      \/ s[i + 1] \notin Lower \cup Upper \cup Digit
                         \cup {"_", "{", "*", "#", "$", "@", "!", "?", "-"}

\* s without one trailing newline.
TrimOne(s) ==
  IF s # <<>> /\ s[Len(s)] = NL THEN [i \in 1..(Len(s) - 1) |-> s[i]] ELSE s

\* The driver's template as read from the template directory.
DriverTemplate == templatePath[Driver]

\* The tokens resolveTemplate may use for a namespace and for a name template.
NamespaceTokens == {tokenPVNameKey, tokenPVCNamespaceKey}

NameTokens(pvc) ==
  {tokenPVNameKey, tokenPVCNamespaceKey, tokenPVCNameKey}
    \cup {annotationToken(k) : k \in DOMAIN pvc.Annotations}

\* Category c has both templates and both are non-empty, so GetSecret
\* resolves them.
Resolves(i, c) ==
  LET t == getSecretTemplate(i.sc.Parameters, c)
  IN  t.err = NoError /\ t.nsTempl # <<>> /\ t.nameTempl # <<>>

NsPresent(p, c) == nsKey(c) \in DOMAIN p \/ deprecatedNsKey(c) \in DOMAIN p

NamePresent(p, c) == nameKey(c) \in DOMAIN p \/ deprecatedNameKey(c) \in DOMAIN p

(***************************************************************************)
(* Properties.                                                             *)
(***************************************************************************)

\* Some step that resolves a template failed in this run: setSecret returned
\* an error, or the driver's template has a token the import parameters lack.
ResolutionFailed ==
  \/ setSecretErr # NoError
  \/ HandleFailed

\* C1: if the volume handle or the secret of any of the four categories fails
\* to resolve, NewVolumeImporter returns an error, no create call is ever
\* issued, and the process exits with a non-zero status.
C1_ResolutionFailureIsFatal ==
  ResolutionFailed =>
    /\ calls = <<>>
    /\ pc \in {"createPV", "createPVC"} => v = {}
    /\ pc = "exited" => (v = {} /\ exitCode # 0)

\* C8: Import issues the volume create exactly once and first, and the claim
\* create at most once and only after the volume create succeeded; a failed
\* volume create ends the run with that error and without a claim create; a
\* failed claim create ends the run with that error and leaves the volume.
C8_ImportOrder ==
  /\ calls \in {<<>>, <<"PersistentVolumes.Create">>,
                <<"PersistentVolumes.Create", "PersistentVolumeClaims.Create">>}
  /\ pc = "createPV" => calls = <<>>
  /\ pc = "createPVC" => calls = <<"PersistentVolumes.Create">>
  /\ (pc = "exited" /\ v # {}) => calls # <<>>
  /\ Len(calls) = 2 => Cardinality(persistentVolumes) = 1
  /\ (pc = "exited" /\ Len(calls) = 1) =>
       /\ persistentVolumes = {}
       /\ persistentVolumeClaims = {}
       /\ exitCode = 1
       /\ LastErr.kind = "PersistentVolumes.Create"
  /\ (pc = "exited" /\ Len(calls) = 2 /\ persistentVolumeClaims = {}) =>
       /\ Cardinality(persistentVolumes) = 1
       /\ exitCode = 1
       /\ LastErr.kind = "PersistentVolumeClaims.Create"
  /\ (pc = "exited" /\ persistentVolumeClaims # {}) =>
       /\ Cardinality(persistentVolumes) = 1
       /\ exitCode = 0

\* A run in which the claim create failed after the volume was created.
C8_Witness ==
  /\ pc = "exited"
  /\ Len(calls) = 2
  /\ persistentVolumeClaims = {}
  /\ persistentVolumes # {}
  /\ exitCode = 1

\* C9: for each of the four categories, the secret stored in the importer and
\* placed in the volume record is what GetSecret returns for that category
\* alone, whatever the other categories' keys and outcomes.
C9_SecretsIndependent ==
  (v # {} /\ pc \in {"createPV", "createPVC", "exited"}) =>
    \A c \in ImportedSecrets :
      LET i == Deref(v)
          r == GetSecret(i.sc.Parameters, c, i.pvName, i.pvc)
      IN  /\ Stored(i, c) = r.ref
          /\ \A pv \in persistentVolumes : Placed(pv, c) = r.ref

\* C4: if exactly one of a category's two templates is present, under its
\* canonical or its deprecated key, GetSecret fails with an error and returns
\* neither a reference nor "none"; a namespace under one key form and a name
\* under the other count as both present.
C4_OneTemplateAloneFails ==
  SecretsSet =>
    \A c \in ImportedSecrets :
      LET i == Deref(v)
          p == i.sc.Parameters
          r == GetSecret(p, c, i.pvName, i.pvc)
      IN  /\ NsPresent(p, c) # NamePresent(p, c) =>
               /\ r.err.kind = ErrOnlyNamespaceOrName
               /\ r.ref = {}
          /\ NsPresent(p, c) = NamePresent(p, c) =>
               r.err.kind # ErrOnlyNamespaceOrName

\* setSecret returned the error for a category whose name template alone is
\* present, under the deprecated key.
C4_Witness ==
  /\ SecretsSet
  /\ setSecretErr.kind = ErrOnlyNamespaceOrName
  /\ \E c \in ImportedSecrets :
       /\ deprecatedNameKey(c) \in DOMAIN Deref(v).sc.Parameters
       /\ ~NsPresent(Deref(v).sc.Parameters, c)
       /\ Stored(Deref(v), c) = {}

\* The deprecated keys of category c whose canonical key is present in p.
Shadowed(p, c) ==
  (IF nsKey(c) \in DOMAIN p THEN {deprecatedNsKey(c)} ELSE {})
    \cup (IF nameKey(c) \in DOMAIN p THEN {deprecatedNameKey(c)} ELSE {})

\* p without the deprecated keys that a canonical key of category c shadows.
WithoutShadowed(p, c) == [k \in DOMAIN p \ Shadowed(p, c) |-> p[k]]

\* C5: for each field of each category, when the canonical and the deprecated
\* key are both present the template used is the canonical key's value, the
\* empty string included; the deprecated key's value is used only when the
\* canonical key is absent.
C5_CanonicalKeyFirst ==
  SecretsSet =>
    \A c \in ImportedSecrets :
      LET i == Deref(v)
          p == i.sc.Parameters
          t == getSecretTemplate(p, c)
      IN  /\ NsPresent(p, c) /\ NamePresent(p, c) =>
               /\ t.err = NoError
               /\ t.nsTempl = IF nsKey(c) \in DOMAIN p THEN p[nsKey(c)]
                              ELSE p[deprecatedNsKey(c)]
               /\ t.nameTempl = IF nameKey(c) \in DOMAIN p THEN p[nameKey(c)]
                                ELSE p[deprecatedNameKey(c)]
          /\ GetSecret(p, c, i.pvName, i.pvc)
               = GetSecret(WithoutShadowed(p, c), c, i.pvName, i.pvc)

\* A category with both keys of the namespace, of different values, whose
\* stored secret has the namespace the canonical template resolves to.
C5_Witness ==
  /\ SecretsSet
  /\ \E c \in ImportedSecrets :
       LET p == Deref(v).sc.Parameters
       IN  /\ nsKey(c) \in DOMAIN p
           /\ deprecatedNsKey(c) \in DOMAIN p
           /\ p[nsKey(c)] = Braced(tokenPVCNamespaceKey)
           /\ p[deprecatedNsKey(c)] = <<"o">>
           /\ Stored(Deref(v), c) # {}
           /\ Deref(Stored(Deref(v), c)).Namespace = Deref(v).pvc.Namespace

\* C10: GetSecret returns "none" (nil reference, nil error) exactly when
\* neither template is found under any key; when both are found, an empty
\* value included, it returns a reference or an error.
C10_NoneIffNeitherFound ==
  SecretsSet =>
    \A c \in ImportedSecrets :
      LET i == Deref(v)
          p == i.sc.Parameters
          r == GetSecret(p, c, i.pvName, i.pvc)
      IN  (r.ref = {} /\ r.err = NoError) <=> (~NsPresent(p, c) /\ ~NamePresent(p, c))

\* The labels of s, the parts between its dots, from position i on.
RECURSIVE Labels(_, _)
Labels(s, i) ==
  LET dots == {k \in i..Len(s) : s[k] = "."}
  IN  IF dots = {} THEN <<SubSeq(s, i, Len(s))>>
      ELSE LET d == CHOOSE k \in dots : \A k2 \in dots : k <= k2
           IN  <<SubSeq(s, i, d - 1)>> \o Labels(s, d + 1)

\* The subdomain-name rule of DNS-1123: at most 253 characters; labels
\* separated by single dots; a label is a non-empty run of lowercase letters,
\* digits and hyphens that neither starts nor ends with a hyphen.
Dns1123Subdomain(s) ==
  /\ Len(s) <= 253
  /\ \A n \in 1..Len(Labels(s, 1)) :
       LET l == Labels(s, 1)[n]
       IN  /\ l # <<>>
           /\ \A k \in 1..Len(l) : l[k] \in Lower \cup Digit \cup {"-"}
           /\ l[1] # "-"
           /\ l[Len(l)] # "-"

\* The rule with separators single: in addition, no hyphen follows a hyphen.
SingleSeparators(s) ==
  /\ Dns1123Subdomain(s)
  /\ \A k \in 1..(Len(s) - 1) : ~(s[k] = "-" /\ s[k + 1] = "-")

\* s has an uppercase letter, an underscore, or a hyphen first or last.
BadName(s) ==
  /\ s # <<>>
  /\ \/ \E k \in 1..Len(s) : s[k] \in Upper \cup {"_"}
     \/ s[1] = "-"
     \/ s[Len(s)] = "-"

\* Every resolved value with an uppercase letter, an underscore or a leading
\* or trailing hyphen makes GetSecret fail with the invalid-name error: the
\* namespace whenever it resolves, the name whenever the namespace is valid
\* and the name resolves.
BadNamesRejected ==
  SecretsSet =>
    \A c \in ImportedSecrets :
      LET i  == Deref(v)
          t  == getSecretTemplate(i.sc.Parameters, c)
          r  == GetSecret(i.sc.Parameters, c, i.pvName, i.pvc)
          ns == Expand(t.nsTempl, resolveParams(i.pvName, i.pvc, FALSE))
          nm == Expand(t.nameTempl, resolveParams(i.pvName, i.pvc, TRUE))
      IN  Resolves(i, c) =>
            /\ (ns.missingParams = {} /\ BadName(ns.out)) =>
                 (r.ref = {} /\ r.err.kind = ErrNotValidDNSName /\ r.err.resolved = ns.out)
            /\ (ns.missingParams = {} /\ Dns1123Subdomain(ns.out)
                  /\ nm.missingParams = {} /\ BadName(nm.out)) =>
                 (r.ref = {} /\ r.err.kind = ErrNotValidDNSName /\ r.err.resolved = nm.out)

\* C6 as stated: the namespace and the name of every secret reference GetSecret
\* returns are non-empty, at most 253 characters long, and made of lowercase
\* alphanumeric segments separated by single dots or hyphens, with no leading
\* or trailing separator; a resolved value with an uppercase letter, an
\* underscore or a leading or trailing hyphen makes GetSecret fail.
C6_SingleSeparatorNames ==
  /\ SecretsSet =>
       \A c \in ImportedSecrets, pv \in {Deref(v)} :
         \A ref \in Stored(pv, c) \cup GetSecret(pv.sc.Parameters, c, pv.pvName, pv.pvc).ref :
           SingleSeparators(ref.Namespace) /\ SingleSeparators(ref.Name)
  /\ BadNamesRejected

\* C6, amended: the namespace and the name of every secret reference GetSecret
\* returns are DNS-1123 subdomain names (hyphens may follow one another
\* inside a label); a resolved value with an uppercase letter, an underscore
\* or a leading or trailing hyphen makes GetSecret fail.
C6_SubdomainNames ==
  /\ SecretsSet =>
       \A c \in ImportedSecrets, pv \in {Deref(v)} :
         \A ref \in Stored(pv, c) \cup GetSecret(pv.sc.Parameters, c, pv.pvName, pv.pvc).ref :
           Dns1123Subdomain(ref.Namespace) /\ Dns1123Subdomain(ref.Name)
  /\ BadNamesRejected

\* A stored secret whose namespace has two hyphens in a row.
C6_Witness ==
  /\ SecretsSet
  /\ \E c \in ImportedSecrets :
       /\ Stored(Deref(v), c) # {}
       /\ Deref(Stored(Deref(v), c)).Namespace = <<"n", "-", "-", "s">>

\* C7: a namespace template is resolved against pv.name and pvc.namespace
\* only, so one that uses ${pvc.name} or ${pvc.annotations['k']} fails with
\* the missing-token error naming the token, even when the claim has the name
\* or annotation; a name template is resolved against pv.name, pvc.namespace,
\* pvc.name and pvc.annotations['k'] for each annotation key k of the claim,
\* and fails with the missing-token error naming the bracketed token when it
\* uses an annotation the claim lacks.
C7_TokenNamespaces ==
  SecretsSet =>
    \A c \in ImportedSecrets :
      LET i  == Deref(v)
          t  == getSecretTemplate(i.sc.Parameters, c)
          r  == GetSecret(i.sc.Parameters, c, i.pvName, i.pvc)
          ns == resolveTemplate(t.nsTempl, i.pvName, i.pvc, FALSE)
          nm == resolveTemplate(t.nameTempl, i.pvName, i.pvc, TRUE)
          nsOther == BracedNames(t.nsTempl) \ NamespaceTokens
          nmOther == BracedNames(t.nameTempl) \ NameTokens(i.pvc)
      IN  Resolves(i, c) =>
            /\ ns.err.tokens \cap NamespaceTokens = {}
            /\ nm.err.tokens \cap NameTokens(i.pvc) = {}
            /\ nsOther # {} =>
                 /\ ns.err.kind = ErrInvalidTokens
                 /\ nsOther \subseteq ns.err.tokens
                 /\ r = [ref |-> {}, err |-> ns.err]
            /\ nmOther # {} =>
                 /\ nm.err.kind = ErrInvalidTokens
                 /\ nmOther \subseteq nm.err.tokens
                 /\ ns.err = NoError => r = [ref |-> {}, err |-> nm.err]
            /\ (OnlyBracedPlaceholders(t.nsTempl) /\ nsOther = {}) =>
                 ns.err.kind # ErrInvalidTokens
            /\ (OnlyBracedPlaceholders(t.nameTempl) /\ nmOther = {}) =>
                 nm.err.kind # ErrInvalidTokens

\* setSecret returned the missing-token error for a namespace template that
\* uses the annotation "team", which the claim carries.
C7_Witness ==
  /\ SecretsSet
  /\ Team \in DOMAIN Deref(v).pvc.Annotations
  /\ setSecretErr.kind = ErrInvalidTokens
  /\ setSecretErr.tokens = {annotationToken(Team)}
  /\ \E c \in ImportedSecrets :
       /\ Resolves(Deref(v), c)
       /\ annotationToken(Team)
            \in BracedNames(getSecretTemplate(Deref(v).sc.Parameters, c).nsTempl)

\* genVolumeHandle has returned, with the handle or with the missing-token
\* error.
HandleResolved == HandleSucceeded \/ HandleFailed

\* Resolving template against the tokens of params reported exactly the
\* uncovered "${name}" placeholders: with one or more of them uncovered, err
\* is the missing-token error and carries exactly their names.
ReportsUncovered(template, params, err) ==
  LET uncovered == BracedNames(template) \ DOMAIN params
  IN  uncovered # {} => (err.kind = ErrInvalidTokens /\ err.tokens = uncovered)

\* The templates a statement is about: all of them, or those in which every
\* "$" opens a "${name}" placeholder.
Covered(onlyBraced, s) == onlyBraced => OnlyBracedPlaceholders(s)

\* The missing-token property of genVolumeHandle and resolveTemplate, over all
\* templates or over those of braced placeholders only.
MissingTokensExact(onlyBraced) ==
  /\ (HandleResolved /\ Covered(onlyBraced, TrimSuffix(DriverTemplate))) =>
       ReportsUncovered(TrimSuffix(DriverTemplate), importParams,
                        IF HandleFailed THEN LastErr ELSE NoError)
  /\ SecretsSet =>
       \A c \in ImportedSecrets :
         LET i == Deref(v)
             t == getSecretTemplate(i.sc.Parameters, c)
             r == GetSecret(i.sc.Parameters, c, i.pvName, i.pvc)
             ns == resolveTemplate(t.nsTempl, i.pvName, i.pvc, FALSE)
             nm == resolveTemplate(t.nameTempl, i.pvName, i.pvc, TRUE)
         IN  Resolves(i, c) =>
               /\ Covered(onlyBraced, t.nsTempl) =>
                    /\ ReportsUncovered(t.nsTempl, resolveParams(i.pvName, i.pvc, FALSE), ns.err)
                    /\ ReportsUncovered(t.nsTempl, resolveParams(i.pvName, i.pvc, FALSE), r.err)
               /\ Covered(onlyBraced, t.nameTempl) =>
                    /\ ReportsUncovered(t.nameTempl, resolveParams(i.pvName, i.pvc, TRUE), nm.err)
                    /\ ns.err = NoError =>
                         ReportsUncovered(t.nameTempl, resolveParams(i.pvName, i.pvc, TRUE), r.err)

\* C2 as stated: for every template and parameter set, in genVolumeHandle and
\* in resolveTemplate, if a "${name}" placeholder has no entry in the
\* parameter set, resolution fails and the missing-token set is exactly the
\* set of uncovered "${name}" placeholder names; no uncovered token is
\* replaced by the empty string in a successful result.
C2_MissingTokensExact == MissingTokensExact(FALSE)

\* C2, amended: the same for every template in which each "$" opens a
\* "${name}" placeholder, that is, is followed by "{", a non-empty name
\* without "$", and "}".
C2_MissingTokensExactBraced == MissingTokensExact(TRUE)

\* genVolumeHandle failed on a template of two placeholders and reported both.
C2_Witness ==
  /\ HandleFailed
  /\ OnlyBracedPlaceholders(TrimSuffix(DriverTemplate))
  /\ Cardinality(BracedNames(TrimSuffix(DriverTemplate))) = 2
  /\ LastErr.tokens = BracedNames(TrimSuffix(DriverTemplate))

\* The templates a statement is about: those os.Expand leaves alone, or those
\* without a "${name}" placeholder.
Plain(noExpansion, s) == IF noExpansion THEN NoExpansion(s) ELSE BracedNames(s) = {}

\* The volume handle of plain templates: genVolumeHandle succeeds and returns
\* the template without its trailing newline.
HandleIsTemplate(noExpansion) ==
  (HandleResolved /\ Plain(noExpansion, TrimOne(DriverTemplate))) =>
    /\ HandleSucceeded
    /\ Deref(v).volumeHandle = TrimOne(DriverTemplate)

\* C3 as stated: for every driver template without a "${name}" placeholder,
\* a "$" not followed by "{" allowed, genVolumeHandle succeeds and returns
\* the template unchanged apart from the stripped trailing newline, whatever
\* the import parameters.
C3_NoPlaceholderUnchanged == HandleIsTemplate(FALSE)

\* C3, amended: the same for every driver template in which each "$" is the
\* last character or is followed by a character that is no letter, digit,
\* underscore, "{" or special variable character (* # $ @ ! ? -).
C3_NoExpansionUnchanged == HandleIsTemplate(TRUE)

\* A handle equal to a template that has a "$" and ended with a newline.
C3_Witness ==
  /\ HandleSucceeded
  /\ DriverTemplate # <<>>
  /\ DriverTemplate[Len(DriverTemplate)] = NL
  /\ \E k \in 1..Len(DriverTemplate) : DriverTemplate[k] = "$"
  /\ importParams # EmptyMap
  /\ Deref(v).volumeHandle = TrimOne(DriverTemplate)

====
